---- MODULE Spec2Model ----
(***************************************************************************)
(* Model of the silver-gold-tracker price cache (app/services/pricing.py),  *)
(* of its estimate calculator and of its marketplace.                      *)
(*                                                                         *)
(* Spec      the price cache under concurrent request threads, the startup *)
(*           trigger and the background refresh threads.                   *)
(* LiveSpec  the same machine with the scheduler's fairness and an         *)
(*           upstream that stays up once it has recovered.                 *)
(* EstSpec   compute_estimate applied to inputs drawn from bounded sets.   *)
(* MarketSpec      the listing, thread and message collections under the   *)
(*                 requests of browsers, contact requests interleaving.    *)
(* SequentialSpec  the same handlers when contact requests do not overlap. *)
(* PageSpec        SequentialSpec with the thread page.                    *)
(* ConfirmSpec     request_confirm alone, over every form.                 *)
(* ViewSpec        submissions, the clock and the marketplace view.        *)
(* StoreSpec       the storage functions applied to bounded files.         *)
(* ApiSpec         the price cache with api_prices calling get_data().     *)
(***************************************************************************)
EXTENDS Integers, Sequences, FiniteSets, TLC

VARIABLES
    cache,                \* the module-level dict: silver, gold, usdkrw, updated
    updated_by,           \* history: the refresh that wrote cache["updated"]
    refresh_lock,         \* _refresh_lock: None or the thread holding it
    refresh_in_progress,  \* _refresh_in_progress
    now,                  \* time.time(), in ticks of fifteen minutes
    up,                   \* the upstream sources answer every request
    next_payload,         \* tag of the payload the next refresh will fetch
    cpc,                  \* position of each calling thread
    need_refresh,         \* get_data's local need_refresh, per request thread
    wpc,                  \* position of each background thread (_job)
    payload,              \* the payload a background thread is fetching
    before,               \* history: the cache when the thread's refresh_data began
    failed,               \* the thread's refresh_data took the except branch
    est_in,               \* compute_estimate's arguments
    est_out,              \* compute_estimate's outcome
    listings,             \* data/listings.jsonl, oldest record first
    creator,              \* history: the browser that submitted each listing
    inquiries,            \* data/inquiries.jsonl, the buy-request log
    sell_requests,        \* data/sell_requests.jsonl, the sell-request log
    threads,              \* data/threads.jsonl
    messages,             \* data/messages/<thread_id>.jsonl, per thread id
    jar,                  \* each browser's uid cookie
    next_uid,             \* the value the next uuid4() of get_or_set_user_id yields
    creq,                 \* contact_listing requests that have read the threads
    last,                 \* what the latest handler step returned
    first_contact,        \* history: the thread each (listing, uid) was first sent to
    cpend,                \* request_confirm requests that have saved their listing
    store_in,             \* the arguments of a storage function
    store_out             \* what the storage function returned and left in the file

vars == <<cache, updated_by, refresh_lock, refresh_in_progress, now, up,
          next_payload, cpc, need_refresh, wpc, payload, before, failed,
          est_in, est_out, listings, creator, inquiries, sell_requests,
          threads, messages, jar, next_uid, creq, last, first_contact,
          cpend, store_in, store_out>>

cacheVars == <<cache, updated_by, refresh_lock, refresh_in_progress, now, up,
               next_payload, cpc, need_refresh, wpc, payload, before, failed>>

estVars == <<est_in, est_out>>

storeVars == <<store_in, store_out>>

marketVars == <<listings, creator, inquiries, sell_requests, threads,
                messages, jar, next_uid, creq, last, first_contact, cpend,
                storeVars>>

-----------------------------------------------------------------------------
(* Bounds and program constants *)

NumReaders == 2        \* request threads
NumWorkers == 2        \* background threads that can exist at once
NumPayloads == 2       \* distinct upstream payloads before tags repeat
MaxAdvance == 2        \* ticks the clock can advance

CACHE_TTL == 1         \* 15 * 60 seconds, in ticks of fifteen minutes

Startup == 0           \* the thread running on_startup
Readers == 1..NumReaders
Callers == {Startup} \cup Readers
Workers == 1..NumWorkers

None == <<>>
Some(v) == <<v>>

\* time.time() at process start: far later than the cache's initial updated = 0.0
StartTime == CACHE_TTL + 1
Times == StartTime..(StartTime + MaxAdvance)

EmptyCache == [silver |-> None, gold |-> None, usdkrw |-> None, updated |-> 0]

NumBrowsers == 2       \* browsers sending requests
NumSlots == 2          \* contact requests that can be in flight at once
MaxListings == 2       \* records in the listing collection
MaxContactListings == 1  \* the same, outside the marketplace view
NumConfirms == 1       \* confirm requests that can be in flight at once
MaxThreads == 2        \* records in the thread collection
MaxMessages == 2       \* records in the message logs, all threads together
MaxMints == 2          \* identities minted after the start
MaxLines == 2          \* lines of the file the storage functions start on
MaxStoreCalls == 2     \* calls of the storage functions on that file

Browsers == 1..NumBrowsers
Slots == 1..NumSlots
ConfirmSlots == 1..NumConfirms
\* ids are uuid4 strings in the code; here a record's id is its position in
\* its collection, and 0 is an id that no record has. A request names a
\* stored record or none.
ListingIds == {0} \cup {listings[i].id : i \in 1..Len(listings)}
ThreadIds == {0} \cup {threads[i].thread_id : i \in 1..Len(threads)}
\* uids 1..NumBrowsers were handed out before the start
MaxUid == NumBrowsers + MaxMints

\* no response returned yet
NoResponse ==
    [op |-> "none", browser |-> 0, status |-> 0, uid |-> 0, presented |-> None,
     minted |-> FALSE, carried |-> FALSE, listing |-> 0, thread |-> 0,
     text |-> <<>>, shown |-> <<>>, success |-> FALSE, form |-> None]

\* no storage function called
NoStoreCall == [file |-> <<>>, calls |-> 0]
StoreIdle ==
    /\ store_in = NoStoreCall
    /\ store_out = None

\* the marketplace with an empty data directory and no request made
MarketIdle ==
    /\ listings = <<>>
    /\ creator = <<>>
    /\ inquiries = <<>>
    /\ sell_requests = <<>>
    /\ threads = <<>>
    /\ messages = [t \in 1..MaxThreads |-> <<>>]
    /\ jar = [b \in Browsers |-> None]
    /\ next_uid = NumBrowsers + 1
    /\ creq = [s \in Slots |-> None]
    /\ last = NoResponse
    /\ first_contact = {}
    /\ cpend = [c \in ConfirmSlots |-> None]

-----------------------------------------------------------------------------
(* The environment: the clock and the upstream sources. Until the upstream  *)
(* has recovered a request to it may fail or succeed; once it has, every    *)
(* request succeeds.                                                        *)

Tick ==
    /\ now < StartTime + MaxAdvance
    /\ now' = now + 1
    /\ UNCHANGED <<cache, updated_by, refresh_lock, refresh_in_progress, up,
                   next_payload, cpc, need_refresh, wpc, payload, before, failed>>
    /\ UNCHANGED estVars
    /\ UNCHANGED marketVars

UpstreamRecover ==
    /\ ~up
    /\ up' = TRUE
    /\ UNCHANGED <<cache, updated_by, refresh_lock, refresh_in_progress, now,
                   next_payload, cpc, need_refresh, wpc, payload, before, failed>>
    /\ UNCHANGED estVars
    /\ UNCHANGED marketVars

-----------------------------------------------------------------------------
(* get_data(): the request path *)

\* where refresh_data_async() returns to
AsyncReturn(c) == IF c = Startup THEN "done" ELSE "return"

\* one operand of the `or` chain: cache[field] is None; the chain stops at the
\* first operand that is true, and `if need_refresh:` calls refresh_data_async()
ReadField(r, at, field, then) ==
    /\ cpc[r] = at
    /\ IF cache[field] = None
          THEN /\ need_refresh' = [need_refresh EXCEPT ![r] = TRUE]
               /\ cpc' = [cpc EXCEPT ![r] = "check1"]
          ELSE /\ cpc' = [cpc EXCEPT ![r] = then]
               /\ UNCHANGED need_refresh
    /\ UNCHANGED <<cache, updated_by, refresh_lock, refresh_in_progress, now, up,
                   next_payload, wpc, payload, before, failed>>
    /\ UNCHANGED estVars
    /\ UNCHANGED marketVars

\* a request thread enters get_data() and evaluates the first operand
ReadSilver(r) == ReadField(r, "idle", "silver", "rd_gold")
ReadGold(r) == ReadField(r, "rd_gold", "gold", "rd_usdkrw")
ReadUsdkrw(r) == ReadField(r, "rd_usdkrw", "usdkrw", "rd_updated")

\* the age test of get_data, in a faulty variant
IsStale_AtTtl(t, updated) == t - updated >= CACHE_TTL

\* time.time() - cache["updated"] > CACHE_TTL
IsStale(t, updated) == t - updated > CACHE_TTL

\* the last operand and `if need_refresh:`
ReadUpdated(r) ==
    /\ cpc[r] = "rd_updated"
    /\ need_refresh' = [need_refresh EXCEPT ![r] = IsStale(now, cache.updated)]
    /\ cpc' = [cpc EXCEPT ![r] = IF IsStale(now, cache.updated) THEN "check1"
                                                                ELSE "return"]
    /\ UNCHANGED <<cache, updated_by, refresh_lock, refresh_in_progress, now, up,
                   next_payload, wpc, payload, before, failed>>
    /\ UNCHANGED estVars
    /\ UNCHANGED marketVars

\* return cache: the caller gets the module's dict itself
GetDataReturn(r) ==
    /\ cpc[r] = "return"
    /\ cpc' = [cpc EXCEPT ![r] = "idle"]
    /\ need_refresh' = [need_refresh EXCEPT ![r] = FALSE]
    /\ UNCHANGED <<cache, updated_by, refresh_lock, refresh_in_progress, now, up,
                   next_payload, wpc, payload, before, failed>>
    /\ UNCHANGED estVars
    /\ UNCHANGED marketVars

-----------------------------------------------------------------------------
(* refresh_data_async(): called by get_data and by on_startup *)

\* if _refresh_in_progress: return      (read without the lock)
UnlockedCheck(c) ==
    /\ cpc[c] = "check1"
    /\ cpc' = [cpc EXCEPT ![c] = IF refresh_in_progress THEN AsyncReturn(c)
                                                         ELSE "acquire"]
    /\ UNCHANGED <<cache, updated_by, refresh_lock, refresh_in_progress, now, up,
                   next_payload, need_refresh, wpc, payload, before, failed>>
    /\ UNCHANGED estVars
    /\ UNCHANGED marketVars

\* with _refresh_lock:      (entering the block)
AcquireLock(c) ==
    /\ cpc[c] = "acquire"
    /\ refresh_lock = None
    /\ refresh_lock' = Some(c)
    /\ cpc' = [cpc EXCEPT ![c] = "locked"]
    /\ UNCHANGED <<cache, updated_by, refresh_in_progress, now, up,
                   next_payload, need_refresh, wpc, payload, before, failed>>
    /\ UNCHANGED estVars
    /\ UNCHANGED marketVars

\* the body of the with block in a faulty variant: no second check
LockedCheckAndSet_NoRecheck(c) ==
    /\ cpc[c] = "locked"
    /\ refresh_lock = Some(c)
    /\ refresh_lock' = None
    /\ refresh_in_progress' = TRUE
    /\ cpc' = [cpc EXCEPT ![c] = "start"]
    /\ UNCHANGED <<cache, updated_by, now, up,
                   next_payload, need_refresh, wpc, payload, before, failed>>
    /\ UNCHANGED estVars
    /\ UNCHANGED marketVars

\* the body of the with block in a faulty variant: the block goes on
\* after the flag is set, the lock still held when the thread is started
LockedCheckAndSet_HoldLock(c) ==
    /\ cpc[c] = "locked"
    /\ refresh_lock = Some(c)
    /\ IF refresh_in_progress
          THEN /\ cpc' = [cpc EXCEPT ![c] = AsyncReturn(c)]
               /\ refresh_lock' = None
               /\ UNCHANGED refresh_in_progress
          ELSE /\ refresh_in_progress' = TRUE
               /\ cpc' = [cpc EXCEPT ![c] = "start"]
               /\ UNCHANGED refresh_lock
    /\ UNCHANGED <<cache, updated_by, now, up,
                   next_payload, need_refresh, wpc, payload, before, failed>>
    /\ UNCHANGED estVars
    /\ UNCHANGED marketVars

\* the body of the with block, the lock being released as the block is left:
\*     if _refresh_in_progress: return
\*     _refresh_in_progress = True
LockedCheckAndSet(c) ==
    /\ cpc[c] = "locked"
    /\ refresh_lock = Some(c)
    /\ refresh_lock' = None
    /\ IF refresh_in_progress
          THEN /\ cpc' = [cpc EXCEPT ![c] = AsyncReturn(c)]
               /\ UNCHANGED refresh_in_progress
          ELSE /\ refresh_in_progress' = TRUE
               /\ cpc' = [cpc EXCEPT ![c] = "start"]
    /\ UNCHANGED <<cache, updated_by, now, up,
                   next_payload, need_refresh, wpc, payload, before, failed>>
    /\ UNCHANGED estVars
    /\ UNCHANGED marketVars

\* the background thread object the call creates: the lowest free one
FreeWorker == CHOOSE w \in Workers :
                 /\ wpc[w] = "idle"
                 /\ \A v \in Workers : wpc[v] = "idle" => w <= v

\* threading.Thread(target=_job, daemon=True).start()
StartThread(c) ==
    /\ cpc[c] = "start"
    /\ \E w \in Workers : wpc[w] = "idle"
    /\ wpc' = [wpc EXCEPT ![FreeWorker] = "started"]
    /\ cpc' = [cpc EXCEPT ![c] = AsyncReturn(c)]
    /\ UNCHANGED <<cache, updated_by, refresh_lock, refresh_in_progress, now, up,
                   next_payload, need_refresh, payload, before, failed>>
    /\ UNCHANGED estVars
    /\ UNCHANGED marketVars

-----------------------------------------------------------------------------
(* _job() and refresh_data(): the background thread *)

\* the thread begins to run: _job enters try and calls refresh_data()
JobBegin(w) ==
    /\ wpc[w] = "started"
    /\ wpc' = [wpc EXCEPT ![w] = "get_silver"]
    /\ payload' = [payload EXCEPT ![w] = next_payload]
    /\ next_payload' = (next_payload % NumPayloads) + 1
    /\ before' = [before EXCEPT ![w] = cache]
    /\ UNCHANGED <<cache, updated_by, refresh_lock, refresh_in_progress, now, up,
                   cpc, need_refresh, failed>>
    /\ UNCHANGED estVars
    /\ UNCHANGED marketVars

\* a statement of the try block that can raise: it completes, or (the upstream
\* not answering as it should) raises into the except clause, which prints the
\* error and lets refresh_data() return
TryStep(w, at, then) ==
    /\ wpc[w] = at
    /\ \/ /\ wpc' = [wpc EXCEPT ![w] = then]
          /\ UNCHANGED failed
       \/ /\ ~up
          /\ wpc' = [wpc EXCEPT ![w] = "finally"]
          /\ failed' = [failed EXCEPT ![w] = TRUE]
    /\ UNCHANGED <<cache, updated_by, refresh_lock, refresh_in_progress, now, up,
                   next_payload, cpc, need_refresh, payload, before>>
    /\ UNCHANGED estVars
    /\ UNCHANGED marketVars

\* requests.get(SILVER_URL, timeout=5).json()
FetchSilver(w) == TryStep(w, "get_silver", "get_gold")
\* requests.get(GOLD_URL, timeout=5).json()
FetchGold(w) == TryStep(w, "get_gold", "get_fx")
\* requests.get(FX_URL, timeout=5).json()
FetchFx(w) == TryStep(w, "get_fx", "parse")
\* the conversions in a faulty variant: the silver price is stored
\* in the cache before the other values are converted
ParsePayload_StoresEarly(w) ==
    /\ wpc[w] = "parse"
    /\ cache' = [cache EXCEPT !.silver = Some(payload[w])]
    /\ \/ /\ wpc' = [wpc EXCEPT ![w] = "set_silver"]
          /\ UNCHANGED failed
       \/ /\ ~up
          /\ wpc' = [wpc EXCEPT ![w] = "finally"]
          /\ failed' = [failed EXCEPT ![w] = TRUE]
    /\ UNCHANGED <<updated_by, refresh_lock, refresh_in_progress, now, up,
                   next_payload, cpc, need_refresh, payload, before>>
    /\ UNCHANGED estVars
    /\ UNCHANGED marketVars

\* float(...["price"]), float(...["rates"]["KRW"]) and the USD/oz -> KRW/gram
\* conversion, all on local variables
ParsePayload(w) == TryStep(w, "parse", "set_silver")

\* cache[field] = <value computed from this refresh's payload>
SetField(w, at, field, then) ==
    /\ wpc[w] = at
    /\ cache' = [cache EXCEPT ![field] = Some(payload[w])]
    /\ wpc' = [wpc EXCEPT ![w] = then]
    /\ UNCHANGED <<updated_by, refresh_lock, refresh_in_progress, now, up,
                   next_payload, cpc, need_refresh, payload, before, failed>>
    /\ UNCHANGED estVars
    /\ UNCHANGED marketVars

SetSilver(w) == SetField(w, "set_silver", "silver", "set_gold")
SetGold(w) == SetField(w, "set_gold", "gold", "set_usdkrw")
SetUsdkrw(w) == SetField(w, "set_usdkrw", "usdkrw", "set_updated")

\* cache["updated"] = time.time(); refresh_data() returns
SetUpdated(w) ==
    /\ wpc[w] = "set_updated"
    /\ cache' = [cache EXCEPT !.updated = now]
    /\ updated_by' = Some(payload[w])
    /\ wpc' = [wpc EXCEPT ![w] = "finally"]
    /\ UNCHANGED <<refresh_lock, refresh_in_progress, now, up,
                   next_payload, cpc, need_refresh, payload, before, failed>>
    /\ UNCHANGED estVars
    /\ UNCHANGED marketVars

\* the finally clause in a faulty variant: the flag is cleared only
\* after a refresh that did not fail
JobFinally_KeepFlagOnFailure(w) ==
    /\ wpc[w] = "finally"
    /\ refresh_in_progress' = IF failed[w] THEN refresh_in_progress ELSE FALSE
    /\ wpc' = [wpc EXCEPT ![w] = "idle"]
    /\ payload' = [payload EXCEPT ![w] = 0]
    /\ before' = [before EXCEPT ![w] = EmptyCache]
    /\ failed' = [failed EXCEPT ![w] = FALSE]
    /\ UNCHANGED <<cache, updated_by, refresh_lock, now, up,
                   next_payload, cpc, need_refresh>>
    /\ UNCHANGED estVars
    /\ UNCHANGED marketVars

\* finally: _refresh_in_progress = False      (written without the lock);
\* the thread ends
JobFinally(w) ==
    /\ wpc[w] = "finally"
    /\ refresh_in_progress' = FALSE
    /\ wpc' = [wpc EXCEPT ![w] = "idle"]
    /\ payload' = [payload EXCEPT ![w] = 0]
    /\ before' = [before EXCEPT ![w] = EmptyCache]
    /\ failed' = [failed EXCEPT ![w] = FALSE]
    /\ UNCHANGED <<cache, updated_by, refresh_lock, now, up,
                   next_payload, cpc, need_refresh>>
    /\ UNCHANGED estVars
    /\ UNCHANGED marketVars

-----------------------------------------------------------------------------
(* The price cache as a state machine *)

NoEstimateCall == [metal |-> "silver", unit |-> "g", amount |-> None,
                   data |-> [silver |-> None, gold |-> None, usdkrw |-> None]]

CacheInit ==
    /\ cache = EmptyCache
    /\ updated_by = None
    /\ refresh_lock = None
    /\ refresh_in_progress = FALSE
    /\ now = StartTime
    /\ up = FALSE
    /\ next_payload = 1
    /\ cpc = [c \in Callers |-> IF c = Startup THEN "check1" ELSE "idle"]
    /\ need_refresh = [r \in Readers |-> FALSE]
    /\ wpc = [w \in Workers |-> "idle"]
    /\ payload = [w \in Workers |-> 0]
    /\ before = [w \in Workers |-> EmptyCache]
    /\ failed = [w \in Workers |-> FALSE]

Init ==
    /\ CacheInit
    /\ est_in = NoEstimateCall
    /\ est_out = None
    /\ MarketIdle
    /\ StoreIdle

ReaderStep(r) ==
    \/ ReadSilver(r)
    \/ ReadGold(r)
    \/ ReadUsdkrw(r)
    \/ ReadUpdated(r)
    \/ GetDataReturn(r)

AsyncStep(c) ==
    \/ UnlockedCheck(c)
    \/ AcquireLock(c)
    \/ LockedCheckAndSet(c)
    \/ StartThread(c)

WorkerStep(w) ==
    \/ JobBegin(w)
    \/ FetchSilver(w)
    \/ FetchGold(w)
    \/ FetchFx(w)
    \/ ParsePayload(w)
    \/ SetSilver(w)
    \/ SetGold(w)
    \/ SetUsdkrw(w)
    \/ SetUpdated(w)
    \/ JobFinally(w)

ThreadStep ==
    \/ \E r \in Readers : ReaderStep(r)
    \/ \E c \in Callers : AsyncStep(c)
    \/ \E w \in Workers : WorkerStep(w)

Next ==
    \/ Tick
    \/ UpstreamRecover
    \/ ThreadStep

Spec == Init /\ [][Next]_vars

\* The scheduler runs every thread that can run, requests keep arriving, and
\* the upstream sources recover and then keep answering. The clock plays no
\* part in filling an empty cache and stands still here.
LiveNext ==
    \/ UpstreamRecover
    \/ ThreadStep

Fairness ==
    /\ WF_vars(UpstreamRecover)
    /\ \A c \in Callers : WF_vars((c \in Readers /\ ReaderStep(c)) \/ AsyncStep(c))
    /\ \A w \in Workers : WF_vars(WorkerStep(w))

LiveSpec == Init /\ [][LiveNext]_vars /\ Fairness

-----------------------------------------------------------------------------
(* Properties of the price cache *)

Running == {w \in Workers : wpc[w] # "idle"}
Starting == {c \in Callers : cpc[c] = "start"}
Fetching == {w \in Workers : wpc[w] \in {"get_silver", "get_gold", "get_fx"}}
Populated == cache.silver # None /\ cache.gold # None /\ cache.usdkrw # None

\* C1: at most one refresh is in flight at any time, counting a refresh whose
\* thread is about to be started, and the flag is set for as long as it is.
C1_SingleFlight ==
    /\ Cardinality(Running) + Cardinality(Starting) <= 1
    /\ (Running # {} \/ Starting # {}) => refresh_in_progress

\* a caller that passed the unlocked check holds the lock while another
\* caller's refresh is fetching: the second check sends it back
C1_Witness ==
    \E c \in Callers : /\ cpc[c] = "locked"
                       /\ refresh_in_progress
                       /\ Fetching # {}

\* the snapshot is all null, or all three prices and the timestamp come from
\* one refresh
SnapshotWhole ==
    \/ /\ cache.silver = None
       /\ cache.gold = None
       /\ cache.usdkrw = None
       /\ updated_by = None
    \/ /\ cache.silver # None
       /\ cache.gold = cache.silver
       /\ cache.usdkrw = cache.silver
       /\ updated_by = cache.silver

\* C2: the snapshot a reader gets from get_data() is never partially updated:
\* the three prices are all null or all populated, and prices and timestamp
\* come from one refresh.
C2_NoPartialSnapshot ==
    \A r \in Readers : cpc[r] = "return" => SnapshotWhole

\* C3: a refresh_data() run that failed has left all four cache fields as they
\* were when it began; a run that succeeded has replaced the three prices and
\* the timestamp with its own.
C3_FailedRefreshKeepsCache ==
    \A w \in Workers :
        wpc[w] = "finally" =>
            IF failed[w]
               THEN cache = before[w]
               ELSE /\ cache.silver = Some(payload[w])
                    /\ cache.gold = Some(payload[w])
                    /\ cache.usdkrw = Some(payload[w])
                    /\ updated_by = Some(payload[w])
                    /\ cache.updated \in Times
                    /\ cache.updated <= now

\* a run has failed over a cache that an earlier run had populated
C3_Witness ==
    \E w \in Workers : /\ wpc[w] = "finally"
                       /\ failed[w]
                       /\ Populated

\* C4: get_data() never waits for a refresh: whoever holds the lock is inside
\* the with block, which it leaves in one step whatever the refresh does, and a
\* request thread inside get_data() can always take its next step unless it is
\* waiting for that lock.
C4_NeverWaitsForRefresh ==
    /\ \A c \in Callers :
          refresh_lock = Some(c) => cpc[c] = "locked" /\ ENABLED AsyncStep(c)
    /\ \A r \in Readers :
          cpc[r] # "idle" =>
              \/ ENABLED (ReaderStep(r) \/ AsyncStep(r))
              \/ cpc[r] = "acquire" /\ refresh_lock # None

\* a request thread has found the snapshot in need of a refresh while a
\* refresh is fetching: it is about to return
C4_Witness ==
    \E r \in Readers : /\ cpc[r] = "check1"
                       /\ refresh_in_progress
                       /\ Fetching # {}

\* at least one price is null or the snapshot is older than the window
NeedsRefresh ==
    \/ cache.silver = None
    \/ cache.gold = None
    \/ cache.usdkrw = None
    \/ now - cache.updated > CACHE_TTL

Evaluating == {"idle", "rd_gold", "rd_usdkrw", "rd_updated"}
InAsync == {"check1", "acquire", "locked", "start"}

\* C5: get_data() calls refresh_data_async() if and only if, as it finishes
\* reading the snapshot, a price is null or the snapshot is older than
\* CACHE_TTL; only a request thread that found it so goes on to start a refresh.
C5_RefreshIffStaleOrMissing ==
    /\ [][\A r \in Readers :
             (cpc[r] \in Evaluating /\ cpc'[r] \notin Evaluating) =>
                 /\ cpc'[r] \in {"check1", "return"}
                 /\ (cpc'[r] = "check1") <=> NeedsRefresh
                 /\ need_refresh'[r] <=> NeedsRefresh]_vars
    /\ [](\A r \in Readers : cpc[r] \in InAsync => need_refresh[r])

\* a request thread has found a populated snapshot exactly CACHE_TTL old and
\* returns without asking for a refresh
C5_Witness ==
    \E r \in Readers : /\ cpc[r] = "return"
                       /\ ~need_refresh[r]
                       /\ Populated
                       /\ now - cache.updated = CACHE_TTL

\* C6: the job clears the flag when its refresh has finished, failed or not,
\* so a set flag is always cleared again, and with requests arriving and the
\* upstream answering in the end the snapshot becomes fully populated.
C6_FailedRefreshIsRetried ==
    /\ [][\A w \in Workers :
             (wpc[w] = "finally" /\ wpc'[w] = "idle") => ~refresh_in_progress']_vars
    /\ (refresh_in_progress ~> ~refresh_in_progress)
    /\ <>Populated

\* the second payload is the first to be written to the cache: the refresh
\* before it had failed and a later request started this one
C6_Witness ==
    /\ cache.silver = Some(2)
    /\ cache.gold = None

-----------------------------------------------------------------------------
(* compute_estimate(): the estimate calculator                              *)
(*                                                                          *)
(* Numbers are exact fixed-point values: an amount counts halves of the     *)
(* unit, a unit factor counts 1/10000 g, so grams count 1/20000 g; a price  *)
(* is whole KRW per gram; a total is won and cents. The inputs below are    *)
(* chosen so that the binary floating point of the program gives the same   *)
(* results as this arithmetic.                                              *)

OZ_TO_GRAM == 311035       \* 31.1035, in 1/10000 g
DON_TO_GRAM == 37500       \* 3.75, in 1/10000 g

\* a faulty variant of the conversion table: don taken for the troy ounce
UnitFactor_DonAsOz(unit) ==
    CASE unit = "kg" -> 1000 * 10000
      [] unit = "oz" -> OZ_TO_GRAM
      [] unit = "don" -> OZ_TO_GRAM
      [] OTHER -> 10000

\* the factor of the if/elif chain that converts the amount to grams; the
\* unit has been normalised, anything but kg, oz and don counting as g
UnitFactor(unit) ==
    CASE unit = "kg" -> 1000 * 10000
      [] unit = "oz" -> OZ_TO_GRAM
      [] unit = "don" -> DON_TO_GRAM
      [] OTHER -> 10000

\* a faulty variant of the amount test: zero is let through
AmountInvalid_ZeroAllowed(amount) == amount = None \/ amount[1] < 0

\* amount is None or amount <= 0
AmountInvalid(amount) == amount = None \/ amount[1] <= 0

\* a faulty variant of the price test: the exchange rate is not looked at
PricesMissing_FxIgnored(data) == data.silver = None \/ data.gold = None

\* data.get("silver") is None or data.get("gold") is None or data.get("usdkrw") is None
PricesMissing(data) ==
    data.silver = None \/ data.gold = None \/ data.usdkrw = None

\* price_per_gram * grams, exactly: whole won and the rest in 1/20000 won
Product(price, grams) ==
    LET whole == price * (grams \div 20000)
        part == price * (grams % 20000)
    IN [won |-> whole + (part \div 20000), rest |-> part % 20000]

\* a faulty variant of the rounding: a half is always rounded up
Round2_HalfUp(price, grams) ==
    LET p == Product(price, grams)
        q == p.rest \div 200
        r == p.rest % 200
        c == IF r >= 100 THEN q + 1 ELSE q
    IN [won |-> p.won + (c \div 100), cents |-> c % 100]

\* round(price_per_gram * grams, 2): to the nearest hundredth, a product
\* exactly halfway between two hundredths going to the even one
Round2(price, grams) ==
    LET p == Product(price, grams)
        q == p.rest \div 200
        r == p.rest % 200
        c == IF r > 100 \/ (r = 100 /\ q % 2 = 1) THEN q + 1 ELSE q
    IN [won |-> p.won + (c \div 100), cents |-> c % 100]

Raise(condition) ==
    [status |-> condition, grams |-> 0, price_per_gram |-> 0,
     total |-> [won |-> 0, cents |-> 0]]

compute_estimate(metal, unit, amount, data) ==
    LET m == IF metal \in {"silver", "gold"} THEN metal ELSE "silver"
        u == IF unit \in {"g", "kg", "oz", "don"} THEN unit ELSE "g"
    IN IF AmountInvalid(amount)
          THEN Raise("InvalidAmount")         \* ValueError("Amount must be greater than 0.")
       ELSE IF PricesMissing(data)
          THEN Raise("PricesUnavailable")     \* ValueError("Prices are unavailable right now. ...")
       ELSE LET price_per_gram == IF m = "silver" THEN data.silver[1]
                                                  ELSE data.gold[1]
                grams == amount[1] * UnitFactor(u)
            IN [status |-> "ok", grams |-> grams,
                price_per_gram |-> price_per_gram,
                total |-> Round2(price_per_gram, grams)]

\* the arguments the calculator is applied to; "platinum" and "lb" are not
\* recognised, amounts are -1, 0, 1/2, 1 and 2 or absent
Metals == {"silver", "gold", "platinum"}
Units == {"g", "kg", "oz", "don", "lb"}
Amounts == {None, Some(-2), Some(0), Some(1), Some(2), Some(4)}
Snapshots == [silver : {None, Some(1), Some(3), Some(1000)},
              gold : {None, Some(3), Some(80000)},
              usdkrw : {None, Some(1300)}]
EstInputs == [metal : Metals, unit : Units, amount : Amounts, data : Snapshots]

EstInit ==
    /\ CacheInit
    /\ est_in \in EstInputs
    /\ est_out = None
    /\ MarketIdle
    /\ StoreIdle

ComputeEstimate ==
    /\ est_out = None
    /\ est_out' = Some(compute_estimate(est_in.metal, est_in.unit,
                                        est_in.amount, est_in.data))
    /\ UNCHANGED est_in
    /\ UNCHANGED cacheVars
    /\ UNCHANGED marketVars

EstNext == ComputeEstimate

EstSpec == EstInit /\ [][EstNext]_vars

-----------------------------------------------------------------------------
(* Properties of the estimate calculator *)

Estimated == est_out # None
Outcome == est_out[1]
AmountGiven == est_in.amount # None /\ est_in.amount[1] > 0
SnapshotHasNull ==
    est_in.data.silver = None \/ est_in.data.gold = None \/ est_in.data.usdkrw = None

\* C7: with an amount that is absent or <= 0 compute_estimate fails with
\* InvalidAmount, whatever the metal, the unit and the snapshot.
C7_InvalidAmountAlways ==
    (Estimated /\ (est_in.amount = None \/ est_in.amount[1] <= 0))
        => Outcome.status = "InvalidAmount"

\* amount 0 with a snapshot that holds no price
C7_Witness ==
    /\ Estimated
    /\ est_in.amount = Some(0)
    /\ est_in.data.silver = None
    /\ Outcome.status = "InvalidAmount"

\* C8 as stated: with any price field null compute_estimate fails with
\* PricesUnavailable, for every metal, unit and amount.
C8_Original ==
    (Estimated /\ SnapshotHasNull) => Outcome.status = "PricesUnavailable"

\* C8: with any price field null and an amount > 0 compute_estimate fails with
\* PricesUnavailable, whatever the metal and the unit.
C8_PricesUnavailableWhenAmountValid ==
    (Estimated /\ SnapshotHasNull /\ AmountGiven)
        => Outcome.status = "PricesUnavailable"

\* only the exchange rate is null, the amount is 1
C8_Witness ==
    /\ Estimated
    /\ est_in.amount = Some(2)
    /\ est_in.data.silver # None
    /\ est_in.data.gold # None
    /\ est_in.data.usdkrw = None
    /\ Outcome.status = "PricesUnavailable"

\* the documented factors, in 1/10000 g: g 1, kg 1000, oz 31.1035, don 3.75
DocumentedFactor ==
    IF est_in.unit = "kg" THEN 10000000
    ELSE IF est_in.unit = "oz" THEN 311035
    ELSE IF est_in.unit = "don" THEN 37500
    ELSE 10000

DocumentedPrice ==
    IF est_in.metal = "gold" THEN est_in.data.gold[1] ELSE est_in.data.silver[1]

\* total minus price_per_gram * grams, in 1/20000 won (a hundredth is 200)
RoundingError ==
    LET p == Product(Outcome.price_per_gram, Outcome.grams)
    IN (Outcome.total.won - p.won) * 20000 + Outcome.total.cents * 200 - p.rest

Abs(x) == IF x < 0 THEN -x ELSE x

\* C9: with an amount > 0 and a populated snapshot, grams is the amount times
\* the documented factor (an unrecognised unit counting as g), pricePerGram is
\* the gold price for gold and the silver price otherwise, and total is their
\* product to the nearest hundredth; silver 1000/g, 2 kg gives 2000 g and
\* 2,000,000.00, gold 80000/g, 1 oz gives 31.1035 g and 2,488,280.00.
C9_EstimateValues ==
    (Estimated /\ AmountGiven /\ ~SnapshotHasNull) =>
        /\ Outcome.status = "ok"
        /\ Outcome.grams = est_in.amount[1] * DocumentedFactor
        /\ Outcome.price_per_gram = DocumentedPrice
        /\ Abs(RoundingError) <= 100
        /\ Outcome.total.cents \in 0..99
        /\ (est_in.unit = "kg" /\ est_in.amount = Some(4) /\ est_in.metal = "silver"
              /\ est_in.data.silver = Some(1000))
              => /\ Outcome.grams = 2000 * 20000
                 /\ Outcome.total = [won |-> 2000000, cents |-> 0]
        /\ (est_in.unit = "oz" /\ est_in.amount = Some(2) /\ est_in.metal = "gold"
              /\ est_in.data.gold = Some(80000))
              => /\ Outcome.grams = 2 * 311035
                 /\ Outcome.total = [won |-> 2488280, cents |-> 0]

\* one don of an unrecognised metal: 3.75 g at the silver price
C9_Witness ==
    /\ Estimated
    /\ est_in.metal = "platinum"
    /\ est_in.unit = "don"
    /\ est_in.amount = Some(2)
    /\ est_in.data.silver = Some(1000)
    /\ Outcome.status = "ok"
    /\ Outcome.grams = 75000
    /\ Outcome.total = [won |-> 3750, cents |-> 0]

\* C10 as stated: the total is the product rounded to 2 decimals half up: a
\* product exactly halfway between two hundredths goes to the larger one.
C10_Original ==
    (Estimated /\ Outcome.status = "ok") =>
        /\ Abs(RoundingError) <= 100
        /\ Abs(RoundingError) = 100 => RoundingError = 100

\* C10: the total is the product rounded to 2 decimals half to even: a
\* product exactly halfway between two hundredths goes to the one whose last
\* digit is even.
C10_RoundHalfEven ==
    (Estimated /\ Outcome.status = "ok") =>
        /\ Abs(RoundingError) <= 100
        /\ Abs(RoundingError) = 100 => Outcome.total.cents % 2 = 0

\* half a don at 3 per gram: 5.625 becomes 5.62
C10_Witness ==
    /\ Estimated
    /\ Outcome.status = "ok"
    /\ RoundingError = -100
    /\ Outcome.total = [won |-> 5, cents |-> 62]

-----------------------------------------------------------------------------
(* The marketplace: listings, threads and messages kept in append-only      *)
(* JSONL collections (app/services/storage.py), and the handlers that       *)
(* write them (app/routers/request_flow.py, app/routers/pages.py). A        *)
(* string the code transforms is a sequence of characters here, a string    *)
(* it only compares is a TLA+ string, and a uid is a number.                *)

Whitespace == {" "}

Min(S) == CHOOSE x \in S : \A y \in S : x <= y
Max(S) == CHOOSE x \in S : \A y \in S : x >= y
Range(f) == {f[i] : i \in DOMAIN f}

\* a faulty variant of str.strip(): only leading whitespace is removed
Strip_LeadingOnly(s) ==
    LET solid == {i \in 1..Len(s) : s[i] \notin Whitespace}
    IN IF solid = {} THEN <<>> ELSE SubSeq(s, Min(solid), Len(s))

\* str.strip(): the text between the first and the last character that is
\* not whitespace
Strip(s) ==
    LET solid == {i \in 1..Len(s) : s[i] \notin Whitespace}
    IN IF solid = {} THEN <<>> ELSE SubSeq(s, Min(solid), Max(solid))

\* str.lower(), on the letters the requests below contain
LowerChar(c) ==
    CASE c = "B" -> "b" [] c = "U" -> "u" [] c = "Y" -> "y"
      [] c = "O" -> "o" [] c = "K" -> "k" [] OTHER -> c
Lower(s) == [i \in 1..Len(s) |-> LowerChar(s[i])]

BUY == <<"b", "u", "y">>
SELL == <<"s", "e", "l", "l">>

\* side = (side or "sell").strip().lower(); anything but buy and sell is sell
NormalSide(side) ==
    LET s == Lower(Strip(IF side = <<>> THEN SELL ELSE side))
    IN IF s \in {BUY, SELL} THEN s ELSE SELL

\* dict.get(key, default)
Get(d, key, default) == IF key \in DOMAIN d THEN d[key] ELSE default

\* A collection is a file of lines, oldest first. A line is the dict that
\* json.loads makes of it, BlankLine when only whitespace is on it, JunkLine
\* when json.loads raises on it; every line ends with a newline except that
\* the last one may lack it, which Torn marks. NoFile is a path that does
\* not exist.
NoFile == <<[nofile |-> TRUE]>>
BlankLine == [blank |-> TRUE]
JunkLine == [junk |-> TRUE]
Torn(line) == [torn |-> line]
IsTorn(line) == "torn" \in DOMAIN line
\* the text of a line, with or without its newline
Content(line) == IF IsTorn(line) THEN line.torn ELSE line

\* line.strip() is not empty and json.loads(line) does not raise
Parses(line) == Content(line) \notin {BlankLine, JunkLine}

\* read_jsonl: [] for a missing path, else the lines that parse, in order
RECURSIVE ReadLines(_)
ReadLines(file) ==
    IF file = <<>> THEN <<>>
    ELSE IF Parses(Head(file))
       THEN <<Content(Head(file))>> \o ReadLines(Tail(file))
    ELSE ReadLines(Tail(file))

read_jsonl(file) == IF file = NoFile THEN <<>> ELSE ReadLines(file)

\* a faulty variant of the append: the record is written at the top
append_jsonl_Front(file, record) ==
    IF file = NoFile THEN <<record>> ELSE <<record>> \o file

\* f.write(json.dumps(obj) + "\n") in append mode: the text goes right behind
\* the last character of the file. Behind a last line without a newline it
\* makes one line with what was there: the record alone when that was
\* whitespace, else text on which json.loads raises.
append_jsonl(file, record) ==
    IF file = NoFile \/ file = <<>> THEN <<record>>
    ELSE IF IsTorn(file[Len(file)])
       THEN SubSeq(file, 1, Len(file) - 1)
            \o <<IF file[Len(file)].torn = BlankLine THEN record ELSE JunkLine>>
    ELSE Append(file, record)

\* x.update(updates)
Merge(x, updates) ==
    [k \in DOMAIN x \cup DOMAIN updates |->
        IF k \in DOMAIN updates THEN updates[k] ELSE x[k]]

\* a faulty variant of the scan: the last record with that id is taken
FirstMatch_Last(items, item_id) ==
    LET hits == {i \in 1..Len(items) :
                    "id" \in DOMAIN items[i] /\ items[i].id = item_id}
    IN IF hits = {} THEN 0 ELSE CHOOSE i \in hits : \A j \in hits : j <= i

\* for x in items: if x.get(id_field) == item_id: ... break
\* the position of the first record with that id, 0 when there is none
FirstMatch(items, item_id) ==
    LET hits == {i \in 1..Len(items) :
                    "id" \in DOMAIN items[i] /\ items[i].id = item_id}
    IN IF hits = {} THEN 0 ELSE CHOOSE i \in hits : \A j \in hits : i <= j

\* update_jsonl_by_id: the file it leaves and the value it returns; the
\* rewrite puts down the records that were read, one line each
update_jsonl_by_id(file, item_id, updates) ==
    LET items == read_jsonl(file)
        m == FirstMatch(items, item_id)
    IN IF m = 0
          THEN [file |-> file, changed |-> FALSE]
          ELSE [file |-> [items EXCEPT ![m] = Merge(items[m], updates)],
                changed |-> TRUE]

\* a faulty variant of find_listing: an unknown id yields the oldest listing
find_listing_OrOldest(listing_id) ==
    LET hits == {i \in 1..Len(listings) : listings[i].id = listing_id}
    IN IF hits # {} THEN Some(listings[Min(hits)])
       ELSE IF listings # <<>> THEN Some(listings[1]) ELSE None

\* the first listing with that id, or None
find_listing(listing_id) ==
    LET hits == {i \in 1..Len(read_jsonl(listings)) : listings[i].id = listing_id}
    IN IF hits = {} THEN None ELSE Some(listings[Min(hits)])

\* the first thread with that thread_id, or None
find_thread(thread_id) ==
    LET hits == {i \in 1..Len(read_jsonl(threads)) : threads[i].thread_id = thread_id}
    IN IF hits = {} THEN None ELSE Some(threads[Min(hits)])

\* read_messages: the thread's log, [] when the file does not exist
read_messages(thread_id) ==
    IF thread_id \in DOMAIN messages THEN read_jsonl(messages[thread_id]) ELSE <<>>

\* get_or_set_user_id: the cookie's uid, or a fresh uuid4 set as a cookie on
\* the response object it is handed
get_or_set_user_id(cookie) ==
    IF cookie # None
       THEN [uid |-> cookie[1], minted |-> FALSE, presented |-> cookie]
       ELSE [uid |-> next_uid, minted |-> TRUE, presented |-> None]

\* the response a handler returns, with status 0 while contact_listing has
\* not returned yet. FastAPI sends a Response object returned
\* by the handler as it is, so the cookie of get_or_set_user_id reaches the
\* browser only when that very object (same_object) is the one returned.
Reply(op, b, status, ident, same_object, listing_id, thread_id, text, shown) ==
    [op |-> op, browser |-> b, status |-> status, uid |-> ident.uid,
     presented |-> ident.presented, minted |-> ident.minted,
     carried |-> ident.minted /\ same_object,
     listing |-> listing_id, thread |-> thread_id, text |-> text,
     shown |-> shown, success |-> FALSE, form |-> None]

\* the handler returned before it looked at the cookie
NoIdentity == [uid |-> 0, minted |-> FALSE, presented |-> None]

\* the browser stores the cookie of the response it receives
Receive(r) ==
    /\ last' = r
    /\ jar' = IF r.carried THEN [jar EXCEPT ![r.browser] = Some(r.uid)] ELSE jar

\* uuid4 never repeats: minting takes the next uid
Mint(ident) ==
    /\ ident.minted => next_uid <= MaxUid
    /\ next_uid' = IF ident.minted THEN next_uid + 1 ELSE next_uid

-----------------------------------------------------------------------------
(* contact_listing, in two steps: up to the read of the thread collection,  *)
(* and from the scan of what was read to the response. Sync handlers run    *)
(* in a thread pool, so requests interleave between the two.                *)

\* a faulty variant of the owner test: nobody is taken for the owner
IsOwner_Nobody(user_uid, listing) == FALSE

\* user_uid == listing.get("owner_uid")
IsOwner(user_uid, listing) == user_uid = Get(listing, "owner_uid", 0)

\* the test of the scan over the threads that were read
ThreadMatches(t, listing_id, user_uid) ==
    /\ Get(t, "listing_id", 0) = listing_id
    /\ user_uid \in Range(Get(t, "participants", <<>>))

\* a faulty variant of create_thread: the buyer is left out of participants
create_thread_OwnerOnly(listing, buyer_uid, thread_id) ==
    [thread_id |-> thread_id, listing_id |-> listing.id,
     participants |-> <<Get(listing, "owner_uid", 0)>>,
     listing_owner_uid |-> Get(listing, "owner_uid", 0),
     buyer_uid |-> buyer_uid, status |-> "open"]

\* a faulty variant of create_thread: the thread starts out closed
create_thread_Closed(listing, buyer_uid, thread_id) ==
    [thread_id |-> thread_id, listing_id |-> listing.id,
     participants |-> <<buyer_uid, Get(listing, "owner_uid", 0)>>,
     listing_owner_uid |-> Get(listing, "owner_uid", 0),
     buyer_uid |-> buyer_uid, status |-> "closed"]

\* the record create_thread saves; thread_id stands for its uuid4
create_thread(listing, buyer_uid, thread_id) ==
    [thread_id |-> thread_id, listing_id |-> listing.id,
     participants |-> <<buyer_uid, Get(listing, "owner_uid", 0)>>,
     listing_owner_uid |-> Get(listing, "owner_uid", 0),
     buyer_uid |-> buyer_uid, status |-> "open"]

\* history: the thread the first answered contact of (listing, uid) was sent to
NoteContact(listing_id, uid, thread_id) ==
    IF \E e \in first_contact : e[1] = listing_id /\ e[2] = uid
       THEN first_contact
       ELSE first_contact \cup {<<listing_id, uid, thread_id>>}

ContactBegin(s, b, listing_id) ==
    LET listing == find_listing(listing_id)
        ident == get_or_set_user_id(jar[b])
    IN /\ creq[s] = None
       /\ IF listing = None
             THEN /\ Receive(Reply("contact", b, 404, NoIdentity, FALSE,
                                   listing_id, 0, <<>>, <<>>))
                  /\ UNCHANGED <<next_uid, creq>>
          ELSE IF IsOwner(ident.uid, listing[1])
             THEN /\ Mint(ident)
                  /\ Receive(Reply("contact", b, 400, ident, FALSE,
                                   listing_id, 0, <<>>, <<>>))
                  /\ UNCHANGED creq
          ELSE /\ Mint(ident)
               /\ creq' = [creq EXCEPT ![s] =
                              Some([browser |-> b, listing |-> listing[1],
                                    ident |-> ident,
                                    read |-> read_jsonl(threads)])]
               /\ Receive(Reply("contact", b, 0, ident, FALSE,
                                listing_id, 0, <<>>, <<>>))
       /\ UNCHANGED <<listings, creator, inquiries, sell_requests, threads,
                      messages, first_contact, cpend, storeVars>>
       /\ UNCHANGED cacheVars
       /\ UNCHANGED estVars

ContactEnd(s) ==
    /\ creq[s] # None
    /\ LET q == creq[s][1]
           hits == {i \in 1..Len(q.read) :
                       ThreadMatches(q.read[i], q.listing.id, q.ident.uid)}
       IN IF hits # {}
             THEN LET t == q.read[Min(hits)]
                  IN /\ Receive(Reply("contact", q.browser, 302, q.ident, TRUE,
                                      q.listing.id, t.thread_id, <<>>, <<>>))
                     /\ first_contact' =
                            NoteContact(q.listing.id, q.ident.uid, t.thread_id)
                     /\ UNCHANGED threads
          ELSE LET thread == create_thread(q.listing, q.ident.uid,
                                           Len(threads) + 1)
               IN /\ Len(threads) < MaxThreads
                  /\ threads' = append_jsonl(threads, thread)
                  /\ Receive(Reply("contact", q.browser, 302, q.ident, TRUE,
                                   q.listing.id, thread.thread_id, <<>>, <<>>))
                  /\ first_contact' =
                         NoteContact(q.listing.id, q.ident.uid, thread.thread_id)
    /\ creq' = [creq EXCEPT ![s] = None]
    /\ UNCHANGED <<listings, creator, inquiries, sell_requests, messages,
                   next_uid, cpend, storeVars>>
    /\ UNCHANGED cacheVars
    /\ UNCHANGED estVars

-----------------------------------------------------------------------------
(* send_message                                                             *)

\* a faulty variant of the compat block: only the buyer becomes a participant
SendParticipants_BuyerOnly(thread) ==
    IF "participants" \in DOMAIN thread THEN Some(thread.participants)
    ELSE IF Get(thread, "listing_owner_uid", 0) # 0
            /\ Get(thread, "buyer_uid", 0) # 0
       THEN Some(<<thread.buyer_uid>>)
    ELSE None

\* thread["participants"] as send_message reads it: the stored list, for a
\* record without one [buyer, owner] when both are set, and else a KeyError
SendParticipants(thread) ==
    IF "participants" \in DOMAIN thread THEN Some(thread.participants)
    ELSE IF Get(thread, "listing_owner_uid", 0) # 0
            /\ Get(thread, "buyer_uid", 0) # 0
       THEN Some(<<thread.buyer_uid, thread.listing_owner_uid>>)
    ELSE None

\* a faulty variant of the access test: nobody is turned away
Denied_Nobody(user_uid, participants) == FALSE

\* user_uid not in participants
Denied(user_uid, participants) == user_uid \notin Range(participants)

\* the msg dict of send_message
Message(user_uid, text) ==
    [sender_uid |-> user_uid, sender_alias |-> "You", text |-> Strip(text)]

RECURSIVE SumLen(_, _)
SumLen(f, S) ==
    IF S = {} THEN 0
    ELSE LET x == CHOOSE y \in S : TRUE IN Len(f[x]) + SumLen(f, S \ {x})
StoredMessages == SumLen(messages, DOMAIN messages)

\* add_message
add_message(thread_id, msg) ==
    messages' = [messages EXCEPT ![thread_id] = append_jsonl(@, msg)]

send_message(b, thread_id, text) ==
    LET thread == find_thread(thread_id)
        ident == get_or_set_user_id(jar[b])
        parts == SendParticipants(thread[1])
    IN /\ IF thread = None
             THEN /\ Receive(Reply("send", b, 404, NoIdentity, FALSE,
                                   0, thread_id, text, <<>>))
                  /\ UNCHANGED <<next_uid, messages>>
          ELSE IF parts = None
             THEN /\ Receive(Reply("send", b, 500, NoIdentity, FALSE,
                                   thread[1].listing_id, thread_id, text, <<>>))
                  /\ UNCHANGED <<next_uid, messages>>
          ELSE IF Denied(ident.uid, parts[1])
             THEN /\ Mint(ident)
                  /\ Receive(Reply("send", b, 403, ident, FALSE,
                                   thread[1].listing_id, thread_id, text, <<>>))
                  /\ UNCHANGED messages
          ELSE /\ Mint(ident)
               /\ StoredMessages < MaxMessages
               /\ add_message(thread_id, Message(ident.uid, text))
               /\ Receive(Reply("send", b, 302, ident, TRUE,
                                thread[1].listing_id, thread_id, text, <<>>))
       /\ UNCHANGED <<listings, creator, inquiries, sell_requests, threads,
                      creq, first_contact, cpend, storeVars>>
       /\ UNCHANGED cacheVars
       /\ UNCHANGED estVars

thread_page(b, thread_id) ==
    LET thread == find_thread(thread_id)
        ident == get_or_set_user_id(jar[b])
    IN /\ IF thread = None
             THEN /\ Receive(Reply("page", b, 404, NoIdentity, FALSE,
                                   0, thread_id, <<>>, <<>>))
                  /\ UNCHANGED next_uid
          ELSE IF ident.uid \notin Range(Get(thread[1], "participants", <<>>))
             \* the cookie was set on the page, the answer is another response
             THEN /\ Mint(ident)
                  /\ Receive(Reply("page", b, 403, ident, FALSE,
                                   thread[1].listing_id, thread_id, <<>>, <<>>))
          ELSE /\ Mint(ident)
               /\ Receive(Reply("page", b, 200, ident, TRUE,
                                thread[1].listing_id, thread_id, <<>>,
                                read_messages(thread_id)))
       /\ UNCHANGED <<listings, creator, inquiries, sell_requests, threads,
                      messages, creq, first_contact, cpend, storeVars>>
       /\ UNCHANGED cacheVars
       /\ UNCHANGED estVars

-----------------------------------------------------------------------------
(* marketplace                                                              *)

\* load_listings
load_listings == read_jsonl(listings)

\* the sort key: x.get("created_at", ""), the empty string coming before
\* every timestamp
CreatedAt(x) == Get(x, "created_at", 0)

\* sorted(items, key=..., reverse=True): descending, items with equal keys
\* in the order they had
RECURSIVE InsertDescending(_, _)
InsertDescending(sorted, x) ==
    IF sorted = <<>> THEN <<x>>
    ELSE IF CreatedAt(Head(sorted)) >= CreatedAt(x)
       THEN <<Head(sorted)>> \o InsertDescending(Tail(sorted), x)
    ELSE <<x>> \o sorted

\* a faulty variant of the sort: the stored order is kept
SortedDescending_AsStored(items) == items

RECURSIVE SortedDescending(_)
SortedDescending(items) ==
    IF items = <<>> THEN <<>>
    ELSE InsertDescending(SortedDescending(SubSeq(items, 1, Len(items) - 1)),
                          items[Len(items)])

marketplace(b) ==
    /\ Receive(Reply("market", b, 200, NoIdentity, FALSE, 0, 0, <<>>,
                     SortedDescending(load_listings)))
    /\ UNCHANGED <<listings, creator, inquiries, sell_requests, threads,
                   messages, next_uid, creq, first_contact, cpend, storeVars>>
    /\ UNCHANGED cacheVars
    /\ UNCHANGED estVars

-----------------------------------------------------------------------------
(* request_confirm                                                          *)

\* the form a browser submits; amount is a required float
BaseForm == [side |-> BUY, name |-> <<"k">>, contact |-> <<"7">>,
             metal |-> "gold", product_type |-> <<"b", "a", "r">>,
             purity |-> <<>>, amount |-> Some(2), unit |-> "g",
             location |-> <<"s">>, message |-> <<>>,
             confirm |-> Some(<<"1">>)]
FormSides == {BUY, <<" ", "B", "U", "Y">>, SELL, <<"s", "w", "a", "p">>, <<>>}
FormNames == {<<"k">>, <<" ", "k", " ">>, <<" ">>, <<>>}
FormContacts == {<<"7">>, <<>>}
FormUnits == {"g", "oz", "lb"}
FormAmounts == {Some(-2), Some(0), Some(1), Some(2)}
FormLocations == {<<"s">>, <<>>}
FormMessages == {<<>>, <<"m", " ">>}
FormConfirms == {None, Some(<<"1">>), Some(<<" ", "O", "K">>), Some(<<"n", "o">>)}
\* the forms that differ from BaseForm in at most one field
Forms ==
    {[BaseForm EXCEPT !.side = v] : v \in FormSides}
    \cup {[BaseForm EXCEPT !.name = v] : v \in FormNames}
    \cup {[BaseForm EXCEPT !.contact = v] : v \in FormContacts}
    \cup {[BaseForm EXCEPT !.metal = v] : v \in Metals}
    \cup {[BaseForm EXCEPT !.unit = v] : v \in FormUnits}
    \cup {[BaseForm EXCEPT !.amount = v] : v \in FormAmounts}
    \cup {[BaseForm EXCEPT !.location = v] : v \in FormLocations}
    \cup {[BaseForm EXCEPT !.message = v] : v \in FormMessages}
    \cup {[BaseForm EXCEPT !.confirm = v] : v \in FormConfirms}

\* the forms submitted where the threads are looked at: one that is accepted
\* and one that is not
MarketForms == {BaseForm, [BaseForm EXCEPT !.confirm = None]}

\* what get_data() can return: nothing fetched yet, or a fetched payload
MarketSnapshots ==
    {[silver |-> None, gold |-> None, usdkrw |-> None],
     [silver |-> Some(1000), gold |-> Some(80000), usdkrw |-> Some(1300)]}

\* gen_alias
gen_alias(kind) == IF kind = BUY THEN "Buyer" ELSE "Seller"

\* a faulty variant of the listing dict: the contact is put into location
Listing_ShowsContact(id, side, form, est, uid) ==
    [id |-> id, type |-> side, metal |-> form.metal,
     product_type |-> Strip(form.product_type), purity |-> Strip(form.purity),
     amount |-> est.grams, unit |-> "g",
     price_per_gram |-> est.price_per_gram, estimate_total |-> est.total,
     location |-> Strip(form.contact), message |-> Strip(form.message),
     created_at |-> now, owner_uid |-> uid,
     alias |-> gen_alias(side), contact_hidden |-> TRUE]

\* the listing dict; id stands for its uuid4, now for datetime.utcnow()
Listing(id, side, form, est, uid) ==
    [id |-> id, type |-> side, metal |-> form.metal,
     product_type |-> Strip(form.product_type), purity |-> Strip(form.purity),
     amount |-> est.grams, unit |-> "g",
     price_per_gram |-> est.price_per_gram, estimate_total |-> est.total,
     location |-> Strip(form.location), message |-> Strip(form.message),
     created_at |-> now, owner_uid |-> uid,
     alias |-> gen_alias(side), contact_hidden |-> TRUE]

\* the record dict written to the request log
AuditRecord(side, name, contact, form, est) ==
    [side |-> side, created_at |-> now,
     metal |-> IF form.metal \in {"silver", "gold"} THEN form.metal ELSE "silver",
     product_type |-> Strip(form.product_type), purity |-> Strip(form.purity),
     amount |-> form.amount[1],
     unit |-> IF form.unit \in {"g", "kg", "oz", "don"} THEN form.unit ELSE "g",
     grams |-> est.grams, price_per_gram_used |-> est.price_per_gram,
     estimated_total_krw |-> est.total, name |-> name, contact |-> contact,
     location |-> Strip(form.location), message |-> Strip(form.message)]

\* save_listing
save_listing(listing) == listings' = append_jsonl(listings, listing)

\* the page render_request builds: a new response, not the one the cookie
\* was set on; data is what get_data() returned
ConfirmReply(b, status, ident, listing_id, success, form, data, log_ok) ==
    [Reply("confirm", b, status, ident, FALSE, listing_id, 0, <<>>, <<>>)
        EXCEPT !.success = success,
               !.form = Some([form |-> form, data |-> data, log_ok |-> log_ok])]

\* a faulty variant of the confirm test: every submission counts as confirmed
Confirmed_Always(confirm) == TRUE

\* confirm_val = (confirm or "").strip().lower() in ("1", "yes", "true", "ok")
Confirmed(confirm) ==
    LET v == Lower(Strip(IF confirm = None THEN <<>> ELSE confirm[1]))
    IN v \in {<<"1">>, <<"y", "e", "s">>, <<"t", "r", "u", "e">>, <<"o", "k">>}

\* request_confirm up to save_listing; a submission that is turned down is
\* answered in this step
ConfirmBegin(c, b, form, data) ==
    LET side == NormalSide(form.side)
        name == Strip(form.name)
        contact == Strip(form.contact)
        est == compute_estimate(form.metal, form.unit, form.amount, data)
        ident == get_or_set_user_id(jar[b])
        id == Len(listings) + 1
    IN /\ cpend[c] = None
       /\ IF \/ ~Confirmed(form.confirm)
             \/ name = <<>> \/ contact = <<>>
             \/ est.status # "ok"
             THEN /\ Receive(ConfirmReply(b, 200, NoIdentity, 0, FALSE,
                                          form, data, TRUE))
                  /\ UNCHANGED <<listings, creator, next_uid, cpend>>
          ELSE /\ Mint(ident)
               /\ Len(listings) < MaxListings
               /\ save_listing(Listing(id, side, form, est, ident.uid))
               /\ creator' = Append(creator, b)
               /\ cpend' = [cpend EXCEPT ![c] =
                               Some([browser |-> b, ident |-> ident,
                                     form |-> form, data |-> data,
                                     side |-> side, listing_id |-> id,
                                     record |-> AuditRecord(side, name, contact,
                                                            form, est)])]
               /\ Receive(ConfirmReply(b, 0, ident, id, FALSE,
                                       form, data, TRUE))
       /\ UNCHANGED <<inquiries, sell_requests, threads, messages, creq,
                      first_contact, storeVars>>
       /\ UNCHANGED cacheVars
       /\ UNCHANGED estVars

\* a faulty variant of the choice of log: every record goes to the buy log
ToInquiries_Always(side) == TRUE

\* if side == "buy": INQUIRIES_FILE, else: SELL_REQUESTS_FILE
ToInquiries(side) == side = BUY

\* request_confirm from the request log to the response; log_ok tells
\* whether the append to the log succeeded (its failure is caught and
\* printed)
ConfirmEnd(c, log_ok) ==
    /\ cpend[c] # None
    /\ LET q == cpend[c][1]
       IN /\ inquiries' = IF log_ok /\ ToInquiries(q.side)
                             THEN append_jsonl(inquiries, q.record)
                             ELSE inquiries
          /\ sell_requests' = IF log_ok /\ ~ToInquiries(q.side)
                                 THEN append_jsonl(sell_requests, q.record)
                                 ELSE sell_requests
          /\ Receive(ConfirmReply(q.browser, 200, q.ident, q.listing_id, TRUE,
                                  q.form, q.data, log_ok))
    /\ cpend' = [cpend EXCEPT ![c] = None]
    /\ UNCHANGED <<listings, creator, threads, messages, next_uid, creq,
                   first_contact, storeVars>>
    /\ UNCHANGED cacheVars
    /\ UNCHANGED estVars

-----------------------------------------------------------------------------
(* The marketplace at the start: browser 1 comes back with the cookie of an *)
(* earlier visit, browser 2 with or without one. The data directory is      *)
(* empty, or holds what an earlier version of the application wrote: a      *)
(* listing of uid 2 and a thread on it with uid 1, stored without a         *)
(* participants list.                                                       *)

LegacyListing ==
    [id |-> 1, type |-> SELL, metal |-> "silver",
     product_type |-> <<"b", "a", "r">>, purity |-> <<>>, amount |-> 20000,
     unit |-> "g", price_per_gram |-> 1000,
     estimate_total |-> [won |-> 1000, cents |-> 0],
     location |-> <<>>, message |-> <<>>, created_at |-> StartTime - 1,
     owner_uid |-> 2, alias |-> "Seller", contact_hidden |-> TRUE]

LegacyThread ==
    [thread_id |-> 1, listing_id |-> 1, listing_owner_uid |-> 2,
     buyer_uid |-> 1, status |-> "open"]

Texts == {<<" ", "h", " ">>, <<" ">>}

MarketInit ==
    /\ CacheInit
    /\ est_in = NoEstimateCall
    /\ est_out = None
    /\ \/ /\ listings = <<>>
          /\ creator = <<>>
          /\ threads = <<>>
       \/ /\ listings = <<LegacyListing>>
          /\ creator = <<0>>
          /\ threads = <<LegacyThread>>
    /\ inquiries = <<>>
    /\ sell_requests = <<>>
    /\ messages = [t \in 1..MaxThreads |-> <<>>]
    /\ jar \in {j \in [Browsers -> {None} \cup {Some(b) : b \in Browsers}] :
                   /\ j[1] = Some(1)
                   /\ \A b \in Browsers : j[b] # None => j[b] = Some(b)
                   /\ \A b \in Browsers : b > 2 => j[b] = None}
    /\ next_uid = NumBrowsers + 1
    /\ creq = [s \in Slots |-> None]
    /\ last = NoResponse
    /\ first_contact = {}
    /\ cpend = [c \in ConfirmSlots |-> None]
    /\ StoreIdle

MarketNext ==
    \/ \E c \in ConfirmSlots, b \in Browsers, form \in MarketForms,
          data \in MarketSnapshots :
          /\ Len(listings) < MaxContactListings
          /\ ConfirmBegin(c, b, form, data)
    \/ \E c \in ConfirmSlots : ConfirmEnd(c, TRUE)
    \/ \E s \in Slots, b \in Browsers, l \in ListingIds : ContactBegin(s, b, l)
    \/ \E s \in Slots : ContactEnd(s)
    \/ \E b \in Browsers, t \in ThreadIds, text \in Texts :
          send_message(b, t, text)

MarketSpec == MarketInit /\ [][MarketNext]_vars

\* the same handlers when no two contact requests overlap
SequentialContactBegin(s, b, listing_id) ==
    /\ \A o \in Slots : creq[o] = None
    /\ ContactBegin(s, b, listing_id)

SequentialNext ==
    \/ \E c \in ConfirmSlots, b \in Browsers, form \in MarketForms,
          data \in MarketSnapshots :
          /\ Len(listings) < MaxContactListings
          /\ ConfirmBegin(c, b, form, data)
    \/ \E c \in ConfirmSlots : ConfirmEnd(c, TRUE)
    \/ \E s \in Slots, b \in Browsers, l \in ListingIds :
          SequentialContactBegin(s, b, l)
    \/ \E s \in Slots : ContactEnd(s)
    \/ \E b \in Browsers, t \in ThreadIds, text \in Texts :
          send_message(b, t, text)

SequentialSpec == MarketInit /\ [][SequentialNext]_vars

\* the sequential handlers and the thread page
PageNext ==
    \/ SequentialNext
    \/ \E b \in Browsers, t \in ThreadIds : thread_page(b, t)

PageSpec == MarketInit /\ [][PageNext]_vars

\* request_confirm over every form and with a request log that can fail
ConfirmNext ==
    \/ \E c \in ConfirmSlots, b \in Browsers, form \in Forms,
          data \in MarketSnapshots :
          /\ Len(listings) < MaxContactListings
          /\ ConfirmBegin(c, b, form, data)
    \/ \E c \in ConfirmSlots, log_ok \in BOOLEAN : ConfirmEnd(c, log_ok)

ConfirmSpec == MarketInit /\ [][ConfirmNext]_vars

\* submissions, the clock and the marketplace view
ViewNext ==
    \/ \E c \in ConfirmSlots, b \in Browsers, form \in MarketForms,
          data \in MarketSnapshots : ConfirmBegin(c, b, form, data)
    \/ \E c \in ConfirmSlots : ConfirmEnd(c, TRUE)
    \/ \E b \in Browsers : marketplace(b)
    \/ Tick

ViewSpec == MarketInit /\ [][ViewNext]_vars

-----------------------------------------------------------------------------
(* The storage functions on one collection. store_in holds the file and the *)
(* number of calls made on it, store_out the last call: its arguments, the  *)
(* file it found and what it returned. The file at the start is any file of *)
(* at most MaxLines lines: the functions are handed whatever is on disk.    *)

StoreRecords == {[id |-> 1, v |-> 0], [id |-> 1, v |-> 1], [id |-> 2, v |-> 0],
                 [v |-> 0]}
StoreLines == StoreRecords \cup {BlankLine, JunkLine}
NewRecords == {[id |-> 3, v |-> 0], [id |-> 1, v |-> 0]}
ItemIds == {1, 2, 3}
Updates == {[v |-> 9], [id |-> 2], [w |-> 1]}

WholeFiles(n) == UNION {[1..k -> StoreLines] : k \in n..MaxLines}
StoreFiles ==
    {NoFile} \cup WholeFiles(0)
    \cup {[f EXCEPT ![Len(f)] = Torn(f[Len(f)])] : f \in WholeFiles(1)}

StoreCall(op, record, item_id, updates, items, changed) ==
    Some([op |-> op, before |-> store_in.file, record |-> record,
          id |-> item_id, updates |-> updates, items |-> items,
          changed |-> changed])

StoreFrame ==
    /\ UNCHANGED <<listings, creator, inquiries, sell_requests, threads,
                   messages, jar, next_uid, creq, last, first_contact, cpend>>
    /\ UNCHANGED cacheVars
    /\ UNCHANGED estVars

StoreInit ==
    /\ CacheInit
    /\ est_in = NoEstimateCall
    /\ est_out = None
    /\ MarketIdle
    /\ store_in \in {[file |-> f, calls |-> 0] : f \in StoreFiles}
    /\ store_out = None

ReadCall ==
    /\ store_in.calls < MaxStoreCalls
    /\ store_in' = [store_in EXCEPT !.calls = @ + 1]
    /\ store_out' = StoreCall("read", BlankLine, 0, BlankLine,
                              read_jsonl(store_in.file), FALSE)
    /\ StoreFrame

AppendCall(record) ==
    /\ store_in.calls < MaxStoreCalls
    /\ store_in' = [file |-> append_jsonl(store_in.file, record),
                    calls |-> store_in.calls + 1]
    /\ store_out' = StoreCall("append", record, 0, BlankLine, <<>>, FALSE)
    /\ StoreFrame

UpdateCall(item_id, updates) ==
    LET r == update_jsonl_by_id(store_in.file, item_id, updates)
    IN /\ store_in.calls < MaxStoreCalls
       /\ store_in' = [file |-> r.file, calls |-> store_in.calls + 1]
       /\ store_out' = StoreCall("update", BlankLine, item_id, updates, <<>>,
                                 r.changed)
       /\ StoreFrame

StoreNext ==
    \/ ReadCall
    \/ \E record \in NewRecords : AppendCall(record)
    \/ \E item_id \in ItemIds, updates \in Updates : UpdateCall(item_id, updates)

StoreSpec == StoreInit /\ [][StoreNext]_vars

-----------------------------------------------------------------------------
(* Claims about the marketplace. In an action formula last' tells what the  *)
(* step did: every handler step writes it.                                  *)

StoredListingIds == {listings[i].id : i \in 1..Len(listings)}
StoredThreadIds == {threads[i].thread_id : i \in 1..Len(threads)}
OwnerOf(listing_id) == find_listing(listing_id)[1].owner_uid
Legacy(t) == "participants" \notin DOMAIN t
\* the two parties of a thread, whichever schema it is stored in
PartiesOf(t) ==
    IF Legacy(t) THEN {t.buyer_uid, t.listing_owner_uid}
                 ELSE Range(t.participants)
IsPrefix(a, b) == Len(a) <= Len(b) /\ SubSeq(b, 1, Len(a)) = a
\* s is raw without its leading and trailing whitespace
IsStripOf(raw, s) ==
    \E i \in 0..Len(raw) : \E j \in i..Len(raw) :
        /\ s = SubSeq(raw, i + 1, j)
        /\ \A k \in 1..i : raw[k] \in Whitespace
        /\ \A k \in (j + 1)..Len(raw) : raw[k] \in Whitespace
        /\ s # <<>> => (s[1] \notin Whitespace /\ s[Len(s)] \notin Whitespace)

\* C11: a contact on a listing by the identity that owns it is answered
\* with 400 and leaves the thread collection as it was.
C11_OwnerContactRejected ==
    [][(/\ last'.op = "contact"
        /\ last'.listing \in StoredListingIds
        /\ last'.uid = OwnerOf(last'.listing))
       => (last'.status = 400 /\ threads' = threads)]_vars

C11_Witness ==
    /\ last.op = "contact"
    /\ last.status = 400
    /\ last.listing \in StoredListingIds
    /\ last.uid = OwnerOf(last.listing)

\* C12: when contact requests do not overlap, a contact by an identity that
\* was already sent to a thread of that listing is sent to the same thread
\* and appends no thread, whatever ran in between.
C12_SequentialContactIdempotent ==
    [][(last'.op = "contact" /\ last'.status = 302)
       => \A e \in first_contact :
             (e[1] = last'.listing /\ e[2] = last'.uid)
                => (last'.thread = e[3] /\ threads' = threads)]_vars

\* a contact answered after a message was sent in the thread that an
\* earlier contact of the same identity created
C12_Witness ==
    /\ last.op = "contact"
    /\ last.status = 302
    /\ <<last.listing, last.uid, last.thread>> \in first_contact
    /\ ~Legacy(find_thread(last.thread)[1])
    /\ \E i \in 1..Len(messages[last.thread]) :
          messages[last.thread][i].sender_uid = last.uid

\* C13: the thread collection never holds two threads of the same listing
\* with the same counterpart.
C13_OneThreadPerPair ==
    \A i, j \in 1..Len(threads) :
        (/\ i # j
         /\ threads[i].listing_id = threads[j].listing_id)
           => threads[i].buyer_uid # threads[j].buyer_uid

\* C14: a contact by the buyer of a thread stored without a participants
\* list is sent to that thread.
C14_LegacyThreadFound ==
    (last.op = "contact" /\ last.status = 302)
       => \A i \in 1..Len(threads) :
             (/\ Legacy(threads[i])
              /\ threads[i].listing_id = last.listing
              /\ threads[i].buyer_uid = last.uid)
                => last.thread = threads[i].thread_id

\* C15: on a thread stored without a participants list, send_message lets
\* the buyer and the owner append, turns every other identity away with 403
\* and never rewrites the thread record.
C15_LegacySendParties ==
    [][(/\ last'.op = "send"
        /\ last'.thread \in StoredThreadIds
        /\ Legacy(find_thread(last'.thread)[1]))
       => LET t == find_thread(last'.thread)[1]
              log == messages[t.thread_id]
          IN /\ threads' = threads
             /\ IF last'.uid \in {t.buyer_uid, t.listing_owner_uid}
                   THEN /\ last'.status = 302
                        /\ Len(messages'[t.thread_id]) = Len(log) + 1
                        /\ IsPrefix(log, messages'[t.thread_id])
                        /\ messages'[t.thread_id][Len(log) + 1].sender_uid
                              = last'.uid
                   ELSE /\ last'.status = 403
                        /\ messages' = messages]_vars

\* the legacy thread holds a message of its buyer and one of its owner
C15_Witness ==
    \E i \in 1..Len(threads) :
        /\ Legacy(threads[i])
        /\ last.op = "send"
        /\ last.status = 302
        /\ last.thread = threads[i].thread_id
        /\ {messages[threads[i].thread_id][k].sender_uid :
               k \in 1..Len(messages[threads[i].thread_id])}
              = {threads[i].buyer_uid, threads[i].listing_owner_uid}

\* C16: send_message by an identity that is not a party of the thread, a
\* caller without a cookie included, is answered with 403 and appends
\* nothing.
C16_NonParticipantForbidden ==
    [][(/\ last'.op = "send"
        /\ last'.thread \in StoredThreadIds
        /\ last'.uid \notin PartiesOf(find_thread(last'.thread)[1]))
       => (last'.status = 403 /\ messages' = messages)]_vars

\* a caller without a cookie was turned away
C16_Witness ==
    /\ last.op = "send"
    /\ last.status = 403
    /\ last.minted
    /\ last.thread \in StoredThreadIds

\* C17: a send_message by a party of the thread appends one message at the
\* end of that thread's log, with the caller's uid, the alias "You" and the
\* stripped text; no step removes or reorders what a log holds, so
\* read_messages returns the messages oldest first.
C17_SendAppendsOne ==
    [][/\ \A t \in 1..MaxThreads : IsPrefix(read_messages(t), read_messages(t)')
       /\ (/\ last'.op = "send"
           /\ last'.thread \in StoredThreadIds
           /\ last'.uid \in PartiesOf(find_thread(last'.thread)[1]))
          => LET t == last'.thread
                 m == messages'[t][Len(messages[t]) + 1]
             IN /\ last'.status = 302
                /\ Len(messages'[t]) = Len(messages[t]) + 1
                /\ m.sender_uid = last'.uid
                /\ m.sender_alias = "You"
                /\ IsStripOf(last'.text, m.text)
                /\ \A o \in 1..MaxThreads : o # t => messages'[o] = messages[o]]_vars

\* a thread holds two messages, the later one of a text with whitespace
\* around it
C17_Witness ==
    /\ last.op = "send"
    /\ last.status = 302
    /\ Len(messages[last.thread]) = 2
    /\ last.text # messages[last.thread][2].text
    /\ messages[last.thread][1].text # messages[last.thread][2].text

\* C18: a contact with a listing id that is not stored and a send_message
\* with a thread id that is not stored are answered with 404 and change no
\* collection.
C18_UnknownIdNotFound ==
    [][(\/ last'.op = "contact" /\ last'.listing \notin StoredListingIds
        \/ last'.op = "send" /\ last'.thread \notin StoredThreadIds)
       => /\ last'.status = 404
          /\ UNCHANGED <<listings, threads, messages>>]_vars

C18_Witness ==
    /\ listings # <<>>
    /\ last.op = "contact"
    /\ last.status = 404
    /\ last.listing \notin StoredListingIds

\* C19: a response of a handler that minted a uid carries it as a cookie, a
\* caller that sent a cookie is given its uid and none is minted, and a
\* contact by the browser that submitted the listing is answered with 400.
C19_IdentityPersists ==
    /\ (last.minted /\ last.status # 0) => last.carried
    /\ last.presented # None => (last.uid = last.presented[1] /\ ~last.minted)
    /\ (/\ last.op = "contact"
        /\ last.status # 0
        /\ last.listing \in StoredListingIds
        /\ creator[last.listing] = last.browser)
          => last.status = 400

\* C20: every stored listing has type buy or sell, metal silver or gold, an
\* amount above 0 and contact_hidden true.
C20_ListingWellFormed ==
    \A i \in 1..Len(listings) :
        /\ listings[i].type \in {BUY, SELL}
        /\ listings[i].metal \in {"silver", "gold"}
        /\ listings[i].amount > 0
        /\ listings[i].contact_hidden = TRUE

-----------------------------------------------------------------------------
(* Claims about request_confirm. A confirm step's last'.form holds the form *)
(* that was submitted and the prices get_data() returned.                   *)

Blank(text) == \A i \in 1..Len(text) : text[i] \in Whitespace
AcceptedFlags == {<<"1">>, <<"y", "e", "s">>, <<"t", "r", "u", "e">>, <<"o", "k">>}
\* the flag is present and, trimmed and in lower case, an accepted value
FlagAccepted(confirm) ==
    /\ confirm # None
    /\ \E i \in 0..Len(confirm[1]) : \E j \in i..Len(confirm[1]) :
          /\ IsStripOf(confirm[1], SubSeq(confirm[1], i + 1, j))
          /\ Lower(SubSeq(confirm[1], i + 1, j)) \in AcceptedFlags
\* the amount is not positive or a price is not there
EstimateFails(form, data) ==
    \/ form.amount = None
    \/ form.amount[1] <= 0
    \/ \E k \in {"silver", "gold", "usdkrw"} : data[k] = None
TurnedDown(sub) ==
    \/ ~FlagAccepted(sub.form.confirm)
    \/ Blank(sub.form.name)
    \/ Blank(sub.form.contact)
    \/ EstimateFails(sub.form, sub.data)
\* the side asked for is buy, whatever its case and the space around it
AsksToBuy(side) ==
    \E i \in 0..Len(side) : \E j \in i..Len(side) :
        /\ IsStripOf(side, SubSeq(side, i + 1, j))
        /\ Lower(SubSeq(side, i + 1, j)) = BUY
ConfirmStep == last'.op = "confirm"
Submitted == last'.form[1]

\* C21: a confirm request whose flag is missing or not an accepted value,
\* whose name or contact is empty after trimming, or whose estimate fails
\* appends nothing to the listings and nothing to either request log; the
\* listing collection grows only in a confirm request that is none of these.
C21_OnlyConfirmedCreates ==
    [][/\ (ConfirmStep /\ TurnedDown(Submitted)) =>
             /\ UNCHANGED <<listings, inquiries, sell_requests>>
             /\ ~last'.success
       /\ listings' # listings =>
             /\ ConfirmStep
             /\ ~TurnedDown(Submitted)]_vars

\* a submission with an accepted flag and a name of one space was turned down
C21_Witness ==
    /\ last.op = "confirm"
    /\ last.status = 200
    /\ ~last.success
    /\ FlagAccepted(last.form[1].form.confirm)
    /\ last.form[1].form.name = <<" ">>
    /\ listings = <<>>

\* C22: the step that writes the request log finds the listing already
\* stored and leaves it; it appends the one record, with the trimmed name,
\* to the buy log when the side is buy and to the sell log otherwise, or
\* nothing at all when the append fails; either way it answers with the
\* success page. Nothing else writes to the two logs.
C22_ListingThenAudit ==
    [][/\ (ConfirmStep /\ last'.success) =>
             /\ last'.status = 200
             /\ last'.listing \in StoredListingIds
             /\ listings' = listings
             /\ LET log == IF AsksToBuy(Submitted.form.side)
                              THEN inquiries ELSE sell_requests
                     log_after == IF AsksToBuy(Submitted.form.side)
                                     THEN inquiries' ELSE sell_requests'
                 IN IF Submitted.log_ok
                       THEN /\ Len(log_after) = Len(log) + 1
                            /\ IsPrefix(log, log_after)
                            /\ IsStripOf(Submitted.form.name,
                                         log_after[Len(log_after)].name)
                            /\ Len(inquiries') + Len(sell_requests')
                                  = Len(inquiries) + Len(sell_requests) + 1
                       ELSE UNCHANGED <<inquiries, sell_requests>>
       /\ <<inquiries, sell_requests>>' # <<inquiries, sell_requests>> =>
             /\ ConfirmStep
             /\ last'.success]_vars

\* the append to the log failed: the listing is stored, no record is in
\* either log and the answer is the success page
C22_Witness ==
    /\ last.op = "confirm"
    /\ last.success
    /\ ~last.form[1].log_ok
    /\ last.listing \in StoredListingIds
    /\ inquiries = <<>>
    /\ sell_requests = <<>>

-----------------------------------------------------------------------------
(* Claims about the stored collections                                      *)

\* C23: every step of the handlers (confirm, contact, send_message, thread
\* page) leaves the listings, the threads and each message log as they were
\* or longer by records at the end: what was stored is still there, the same
\* and in the same order.
C23_AppendOnly ==
    [][/\ IsPrefix(listings, listings')
       /\ IsPrefix(threads, threads')
       /\ \A t \in DOMAIN messages : IsPrefix(messages[t], messages'[t])
       /\ IsPrefix(inquiries, inquiries')
       /\ IsPrefix(sell_requests, sell_requests')]_vars

\* a thread page has been read with two messages on it, in a store that
\* holds a listing and two threads
C23_Witness ==
    /\ last.op = "page"
    /\ last.status = 200
    /\ Len(last.shown) = 2
    /\ listings # <<>>
    /\ Len(threads) = 2

\* C24: a step that adds a thread is the answer to a contact request and
\* adds one thread, on the listing contacted, whose participants are two
\* different identities, the listing's owner and the caller, and whose
\* status is open; no step changes the status of a stored thread.
C24_ThreadParties ==
    [][/\ threads' # threads =>
             LET t == threads'[Len(threads')]
             IN /\ threads' = Append(threads, t)
                /\ last'.op = "contact"
                /\ last'.thread = t.thread_id
                /\ t.listing_id = last'.listing
                /\ Len(t.participants) = 2
                /\ Range(t.participants) = {OwnerOf(last'.listing), last'.uid}
                /\ OwnerOf(last'.listing) # last'.uid
                /\ t.status = "open"
       /\ \A i \in 1..Len(threads) :
             /\ i <= Len(threads')
             /\ threads'[i].status = threads[i].status]_vars

\* a contact has created a thread for an identity minted in that request
C24_Witness ==
    /\ last.op = "contact"
    /\ last.status = 302
    /\ last.minted
    /\ \E i \in 1..Len(threads) :
          /\ threads[i].thread_id = last.thread
          /\ ~Legacy(threads[i])
          /\ last.uid \in Range(threads[i].participants)

-----------------------------------------------------------------------------
(* api_prices: GET /api/prices. get_data() returns the cache dict itself,   *)
(* and the handler builds its JSON body from it in the step that ends the   *)
(* request. The prices of the model are whole numbers, which round(x, 2)    *)
(* leaves as they are.                                                      *)

\* round(x, 2) if x is not None else None
RoundOrNull(x) == IF x # None THEN Some(x[1]) ELSE None

\* a faulty variant of the handler: a price that is None is rounded all the
\* same, which raises TypeError and is answered with status 500
ApiResponse_NoNullCheck(data) ==
    IF data.silver = None \/ data.gold = None \/ data.usdkrw = None
       THEN [status |-> 500,
             body |-> [silver_krw_per_gram |-> None, gold_krw_per_gram |-> None,
                       usdkrw |-> None, margin_percent |-> 0, updated |-> 0]]
       ELSE [status |-> 200,
             body |-> [silver_krw_per_gram |-> Some(data.silver[1]),
                       gold_krw_per_gram |-> Some(data.gold[1]),
                       usdkrw |-> Some(data.usdkrw[1]),
                       margin_percent |-> 0, updated |-> data.updated]]

\* the JSONResponse of api_prices
ApiResponse(data) ==
    [status |-> 200,
     body |-> [silver_krw_per_gram |-> RoundOrNull(data.silver),
               gold_krw_per_gram |-> RoundOrNull(data.gold),
               usdkrw |-> RoundOrNull(data.usdkrw),
               margin_percent |-> 0, updated |-> data.updated]]

\* get_data() returns to api_prices, which answers
api_prices(r) ==
    /\ cpc[r] = "return"
    /\ cpc' = [cpc EXCEPT ![r] = "idle"]
    /\ need_refresh' = [need_refresh EXCEPT ![r] = FALSE]
    /\ last' = Reply("prices", r, ApiResponse(cache).status, NoIdentity, FALSE,
                     0, 0, <<>>, <<ApiResponse(cache).body>>)
    /\ UNCHANGED <<cache, updated_by, refresh_lock, refresh_in_progress, now, up,
                   next_payload, wpc, payload, before, failed>>
    /\ UNCHANGED estVars
    /\ UNCHANGED <<listings, creator, inquiries, sell_requests, threads,
                   messages, jar, next_uid, creq, first_contact, cpend,
                   storeVars>>

\* the price cache with api_prices as the caller of get_data()
ApiNext ==
    \/ Tick
    \/ UpstreamRecover
    \/ \E r \in Readers : \/ ReadSilver(r)
                          \/ ReadGold(r)
                          \/ ReadUsdkrw(r)
                          \/ ReadUpdated(r)
                          \/ api_prices(r)
    \/ \E c \in Callers : AsyncStep(c)
    \/ \E w \in Workers : WorkerStep(w)

ApiSpec == Init /\ [][ApiNext]_vars

PriceFields == {<<"silver", "silver_krw_per_gram">>,
                <<"gold", "gold_krw_per_gram">>, <<"usdkrw", "usdkrw">>}

-----------------------------------------------------------------------------
(* Claims about the storage functions                                       *)

\* the records of a file: the text of its lines that are neither blank nor
\* unparseable, in the order of the lines
RecordsOf(file) ==
    IF file = NoFile THEN <<>>
    ELSE LET pos == {i \in 1..Len(file) :
                        /\ Content(file[i]) # BlankLine
                        /\ Content(file[i]) # JunkLine}
         IN [k \in 1..Cardinality(pos) |->
                Content(file[CHOOSE i \in pos :
                                 Cardinality({j \in pos : j <= i}) = k])]
UpdateStep ==
    /\ store_in'.calls = store_in.calls + 1
    /\ store_out'[1].op = "update"

\* C26: update_jsonl_by_id returns false and leaves the file as it is when
\* no record has the id; otherwise it returns true and the file holds the
\* same records in the same order, except that the first record with the id
\* has the fields of the patch, with the patch's values, beside those of its
\* own fields that the patch does not name.
C26_UpdateFirstMatch ==
    [][UpdateStep =>
          LET call == store_out'[1]
              items == RecordsOf(store_in.file)
              after == RecordsOf(store_in'.file)
              hits == {i \in 1..Len(items) :
                          "id" \in DOMAIN items[i] /\ items[i].id = call.id}
          IN IF hits = {}
                THEN /\ ~call.changed
                     /\ store_in'.file = store_in.file
                ELSE /\ call.changed
                     /\ Len(after) = Len(items)
                     /\ \A i \in 1..Len(items) :
                           i # Min(hits) => after[i] = items[i]
                     /\ LET x == items[Min(hits)]
                            y == after[Min(hits)]
                        IN /\ DOMAIN y = DOMAIN x \cup DOMAIN call.updates
                           /\ \A k \in DOMAIN call.updates :
                                 y[k] = call.updates[k]
                           /\ \A k \in DOMAIN x \ DOMAIN call.updates :
                                 y[k] = x[k]]_vars

\* an update has found two records with the id it was given
C26_Witness ==
    /\ store_out # None
    /\ store_out[1].op = "update"
    /\ store_out[1].changed
    /\ LET items == RecordsOf(store_out[1].before)
       IN Cardinality({i \in 1..Len(items) :
                          /\ "id" \in DOMAIN items[i]
                          /\ items[i].id = store_out[1].id}) = 2

\* C27: read_jsonl returns the records of the file, all of them and in the
\* order of their lines, and the empty sequence for a path that does not
\* exist; after append_jsonl the record appended is the last of the file's
\* records.
C27_ReadAndAppend ==
    /\ (store_out # None /\ store_out[1].op = "read") =>
          /\ store_out[1].items = RecordsOf(store_out[1].before)
          /\ store_out[1].before = NoFile => store_out[1].items = <<>>
    /\ (store_out # None /\ store_out[1].op = "append") =>
          LET items == RecordsOf(store_in.file)
          IN /\ items # <<>>
             /\ items[Len(items)] = store_out[1].record

-----------------------------------------------------------------------------
(* Claims about the pages                                                   *)

\* C28: the marketplace page shows each stored listing once and nothing
\* else, no listing above one that was created later.
C28_NewestFirst ==
    last.op = "market" =>
        /\ Len(last.shown) = Len(listings)
        /\ \A i \in 1..Len(listings) :
              Cardinality({k \in 1..Len(last.shown) :
                              last.shown[k] = listings[i]}) = 1
        /\ \A i \in 1..Len(last.shown) : \A j \in i..Len(last.shown) :
              CreatedAt(last.shown[i]) >= CreatedAt(last.shown[j])

\* the page shows two listings, the one stored second first
C28_Witness ==
    /\ last.op = "market"
    /\ Len(last.shown) = 2
    /\ last.shown[1] = listings[2]
    /\ last.shown[2] = listings[1]
    /\ CreatedAt(listings[2]) > CreatedAt(listings[1])

\* C29: the thread page of a stored thread answers a caller who is one of
\* the thread's two parties, in either schema, with the thread's messages,
\* and every other caller with status 403.
C29_PageIffParty ==
    (last.op = "page" /\ last.thread \in StoredThreadIds) =>
        IF last.uid \in PartiesOf(find_thread(last.thread)[1])
           THEN /\ last.status = 200
                /\ last.shown = messages[last.thread]
           ELSE last.status = 403

\* the fields of a listing that hold text
TextFields == {"type", "product_type", "purity", "location", "message"}
Holds(field, raw) == field = raw \/ IsStripOf(raw, field)

\* C30: the listing a confirmed submission stores holds the submitter's
\* name and contact in none of its text fields, trimmed or as typed; the
\* record the same submission adds to the request log holds both, trimmed.
C30_ContactNotListed ==
    [][/\ listings' # listings =>
             /\ ConfirmStep
             /\ \A k \in TextFields :
                   /\ ~Holds(listings'[Len(listings')][k], Submitted.form.name)
                   /\ ~Holds(listings'[Len(listings')][k], Submitted.form.contact)
             /\ UNCHANGED <<inquiries, sell_requests>>
       /\ <<inquiries, sell_requests>>' # <<inquiries, sell_requests>> =>
             LET log == IF inquiries' # inquiries THEN inquiries'
                                                  ELSE sell_requests'
             IN /\ ConfirmStep
                /\ IsStripOf(Submitted.form.name, log[Len(log)].name)
                /\ IsStripOf(Submitted.form.contact, log[Len(log)].contact)
                /\ UNCHANGED listings]_vars

\* a submission with space around the name is stored: the request log has
\* the name, the listing has not
C30_Witness ==
    /\ last.op = "confirm"
    /\ last.success
    /\ last.form[1].form.name = <<" ", "k", " ">>
    /\ inquiries # <<>>
    /\ inquiries[Len(inquiries)].name = <<"k">>
    /\ inquiries[Len(inquiries)].contact = <<"7">>
    /\ listings # <<>>
    /\ \A k \in TextFields : listings[Len(listings)][k] # <<"k">>

====
